---- MODULE Spec2Model ----
(***************************************************************************)
(* Model of the heat-wave dashboard (src/app.py): the two tables loaded at *)
(* start-up, the three callbacks draw_controls, hwi_dd and update_graph,  *)
(* and the legend of the figure that update_graph returns.                *)
(*                                                                         *)
(* A table is a sequence of rows (row order is the order of the CSV file). *)
(* A figure is a record with the sequence of its traces and its layout;    *)
(* a call that raises is recorded as [status |-> "error", exc |-> ...].    *)
(***************************************************************************)
EXTENDS Integers, Sequences, FiniteSets, TLC

VARIABLES
    hwi,        \* the HWI table (module global hwi, after dropna)
    hw,         \* the heatwave-days table: [isNone, rows]  (global hw)
    have_hw,    \* global have_hw
    loaded,     \* history: the two tables as they were right after load
    tab,        \* dcc.Tabs "tabs" value
    hwi_view,   \* RadioItems "hwi-view" value (None when not in the layout)
    hwi_dd,     \* Dropdown "hwi-dd": [options, value]
    hw_scen,    \* Checklist "hw-scen" value: [isNone, items]
    controls,   \* which children draw_controls last put in "controls-area"
    fig,        \* "main-graph" figure: last result of update_graph, with its arguments
    hidden,     \* indices of the traces of fig the legend has switched off
    pending     \* callbacks the framework has scheduled and not yet run

vars == <<hwi, hw, have_hw, loaded, tab, hwi_view, hwi_dd, hw_scen, controls,
          fig, hidden, pending>>

-----------------------------------------------------------------------------
(* Bounds of the model *)

\* most rows of a CSV file
MaxRows == 3

-----------------------------------------------------------------------------
(* Python values *)

\* Python None where a string is expected (a component value that is unset)
None == "None"

\* a missing hwi / heatwave_days cell of the CSV (NaN), dropped by dropna
NaN == -1

\* hw-scen value: None, or the list of ticked scenarios (only membership is used)
NoneSel == [isNone |-> TRUE, items |-> {}]
ListSel(S) == [isNone |-> FALSE, items |-> S]

\* truth value of a checklist value: None and [] are falsy
Truthy(sel) == ~sel.isNone /\ sel.items # {}

\* str.capitalize() on the strings the inputs range over
capitalize(s) ==
    CASE s = "yellow" -> "Yellow"
      [] s = "orange" -> "Orange"
      [] s = "red" -> "Red"
      [] s = "observations" -> "Observations"
      [] s = "historical" -> "Historical"
      [] s = "ssp126" -> "Ssp126"
      [] s = "ssp245" -> "Ssp245"
      [] s = "ssp370" -> "Ssp370"
      [] s = "" -> ""
      [] OTHER -> "Unknown"

-----------------------------------------------------------------------------
(* Module globals *)

scenario_colors ==
    [s \in {"observations", "historical", "ssp126", "ssp245", "ssp370"} |->
        CASE s = "observations" -> "black"
          [] s = "historical" -> "gray"
          [] s = "ssp126" -> "navy"
          [] s = "ssp245" -> "orange"
          [] s = "ssp370" -> "red"]

level_colors ==
    [l \in {"yellow", "orange", "red"} |->
        CASE l = "yellow" -> "gold"
          [] l = "orange" -> "darkorange"
          [] l = "red" -> "firebrick"]

\* list(scenario_colors.keys()), list(level_colors.keys()): insertion order
scenarios == <<"observations", "historical", "ssp126", "ssp245", "ssp370">>
levels == <<"yellow", "orange", "red">>

\* the literal lists update_graph iterates over
HwiBases == <<"observations", "historical">>
Ssps == <<"ssp126", "ssp245", "ssp370">>
HwScenarios == <<"obs", "historical", "ssp126", "ssp245", "ssp370">>

color_map ==
    [s \in {"obs", "historical", "ssp126", "ssp245", "ssp370"} |->
        CASE s = "obs" -> "black"
          [] s = "historical" -> "gray"
          [] s = "ssp126" -> "navy"
          [] s = "ssp245" -> "orange"
          [] s = "ssp370" -> "red"]

-----------------------------------------------------------------------------
(* pandas helpers *)

Range(s) == {s[i] : i \in 1..Len(s)}

RECURSIVE ConcatMap(_, _)
\* concatenation of Op(x) for x in s, in order (a for loop appending traces)
ConcatMap(Op(_), s) ==
    IF s = <<>> THEN <<>> ELSE Op(Head(s)) \o ConcatMap(Op, Tail(s))

Column(t, c) == [i \in 1..Len(t) |-> t[i][c]]

RECURSIVE InsertByYear(_, _)
InsertByYear(r, s) ==
    IF s = <<>> THEN <<r>>
    ELSE IF r.year < Head(s).year THEN <<r>> \o s
    ELSE <<Head(s)>> \o InsertByYear(r, Tail(s))

RECURSIVE InsertionSort(_)
InsertionSort(t) ==
    IF t = <<>> THEN <<>>
    ELSE InsertByYear(t[Len(t)], InsertionSort(SubSeq(t, 1, Len(t) - 1)))

\* mutant: the rows are left in file order
sort_values_skipped(t) == t

\* DataFrame.sort_values("year"): ascending; rows of one year keep their order
\* (numpy sorts arrays of at most 16 elements by insertion)
sort_values(t) == InsertionSort(t)

\* df[df[col] == v]
WhereEq(t, col, v) == SelectSeq(t, LAMBDA r : r[col] = v)

\* int(t["year"].max()), int(t["year"].min()) of a non-empty table
MaxYear(t) == CHOOSE y \in Range(Column(t, "year")) :
                 \A z \in Range(Column(t, "year")) : z <= y
MinYear(t) == CHOOSE y \in Range(Column(t, "year")) :
                 \A z \in Range(Column(t, "year")) : y <= z

\* float(t[t["year"] == y][col].iloc[0])
FirstAt(t, y, col) == WhereEq(t, "year", y)[1][col]

\* DataFrame.dropna(subset=[col])
dropna(t, col) == SelectSeq(t, LAMBDA r : r[col] # NaN)

-----------------------------------------------------------------------------
(* plotly traces *)

\* go.Scatter(x=sub["year"], y=sub[col], mode="lines+markers", name=.., legendgroup=..)
SeriesTrace(sub, col, name, color) ==
    [mode |-> "lines+markers", name |-> name,
     x |-> Column(sub, "year"), y |-> Column(sub, col),
     color |-> color, legendgroup |-> name, showlegend |-> TRUE]

\* the legendgroup string f"{ssp}__{base}"
ConnectorGroup(ssp, base) == <<ssp, "__", base>>

\* mutant: the connector leaves the base at its first year instead of its last
ConnectorTraceFromFirstYear(a, s, col, ssp, base, color) ==
    [mode |-> "lines", name |-> "",
     x |-> <<MinYear(a), MinYear(s)>>,
     y |-> <<FirstAt(a, MinYear(a), col), FirstAt(s, MinYear(s), col)>>,
     color |-> color, legendgroup |-> ConnectorGroup(ssp, base),
     showlegend |-> FALSE]

\* go.Scatter(x=[x0, x1], y=[y0, y1], mode="lines", showlegend=False, legendgroup=..)
ConnectorTrace(a, s, col, ssp, base, color) ==
    [mode |-> "lines", name |-> "",
     x |-> <<MaxYear(a), MinYear(s)>>,
     y |-> <<FirstAt(a, MaxYear(a), col), FirstAt(s, MinYear(s), col)>>,
     color |-> color, legendgroup |-> ConnectorGroup(ssp, base),
     showlegend |-> FALSE]

-----------------------------------------------------------------------------
(* update_graph *)

\* a figure: the traces in the order of the add_trace calls, and the layout
Figure(traces, title, xaxis_title, yaxis_title) ==
    [status |-> "ok", traces |-> traces, title |-> title,
     xaxis_title |-> xaxis_title, yaxis_title |-> yaxis_title,
     legend_groupclick |-> "toggleitem"]

\* the call raised exc instead of returning a figure
Raised(exc) == [status |-> "error", exc |-> exc]

\* mutant: the level filter is not applied
FilterLevelKeepsAll(df, hwi_sel) == df

\* df = df[df["warning_level"] == hwi_sel]   (== None matches no row)
FilterLevel(df, hwi_sel) == WhereEq(df, "warning_level", hwi_sel)

\* df = df[df["source"] == hwi_sel]
FilterSource(df, hwi_sel) == WhereEq(df, "source", hwi_sel)

\* for src in ["observations", "historical"]: the trace of src unless sub.empty
HwiBaseTraces(df) ==
    ConcatMap(LAMBDA src :
                 LET sub == sort_values(WhereEq(df, "source", src))
                 IN  IF sub = <<>> THEN <<>>
                     ELSE <<SeriesTrace(sub, "hwi", src, scenario_colors[src])>>,
              HwiBases)

\* for base in ["observations", "historical"]: the connector unless b.empty
HwiConnectors(df, sub, ssp) ==
    ConcatMap(LAMBDA base :
                 LET b == sort_values(WhereEq(df, "source", base))
                 IN  IF b = <<>> THEN <<>>
                     ELSE <<ConnectorTrace(b, sub, "hwi", ssp, base,
                                           scenario_colors[ssp])>>,
              HwiBases)

\* for ssp in ["ssp126", "ssp245", "ssp370"]: its trace and its connectors
HwiSspTraces(df) ==
    ConcatMap(LAMBDA ssp :
                 LET sub == sort_values(WhereEq(df, "source", ssp))
                 IN  IF sub = <<>> THEN <<>>
                     ELSE <<SeriesTrace(sub, "hwi", ssp, scenario_colors[ssp])>>
                          \o HwiConnectors(df, sub, ssp),
              Ssps)

\* mutant: the levels are walked from red to yellow
HwiWarningTracesRedFirst(df) ==
    ConcatMap(LAMBDA lvl :
                 LET sub == sort_values(WhereEq(df, "warning_level", lvl))
                 IN  IF sub = <<>> THEN <<>>
                     ELSE <<SeriesTrace(sub, "hwi", lvl, level_colors[lvl])>>,
              <<"red", "orange", "yellow">>)

\* for lvl, col in level_colors.items(): the trace of lvl unless sub.empty
HwiWarningTraces(df) ==
    ConcatMap(LAMBDA lvl :
                 LET sub == sort_values(WhereEq(df, "warning_level", lvl))
                 IN  IF sub = <<>> THEN <<>>
                     ELSE <<SeriesTrace(sub, "hwi", lvl, level_colors[lvl])>>,
              levels)

\* the HWI tab, scenario view; hwi_sel.capitalize() raises on None
HwiScenarioFigure(df, hwi_sel) ==
    IF hwi_sel = None THEN Raised("AttributeError")
    ELSE Figure(HwiBaseTraces(FilterLevel(df, hwi_sel))
                    \o HwiSspTraces(FilterLevel(df, hwi_sel)),
                <<"HWI - ", capitalize(hwi_sel)>>, "Gads", "HWI")

\* the HWI tab, warning-level view
HwiWarningFigure(df, hwi_sel) ==
    Figure(HwiWarningTraces(FilterSource(df, hwi_sel)),
           <<"HWI - scenarijs: ", hwi_sel>>, "Gads", "HWI")

\* if hw_sel and scen not in hw_sel: continue
ScenarioSkipped(hw_sel, scen) == Truthy(hw_sel) /\ scen \notin hw_sel.items

\* for scen in [...]: the trace of scen unless skipped or sub.empty
HwSeriesTraces(df, hw_sel) ==
    ConcatMap(LAMBDA scen :
                 LET sub == sort_values(WhereEq(df, "scenario", scen))
                 IN  IF ScenarioSkipped(hw_sel, scen) \/ sub = <<>> THEN <<>>
                     ELSE <<SeriesTrace(sub, "heatwave_days", scen, color_map[scen])>>,
              HwScenarios)

\* add_connector(src_a, src_b, ssp_name): nothing if a.empty or s.empty
add_connector(df, src_a, ssp_name) ==
    LET a == sort_values(WhereEq(df, "scenario", src_a))
        s == sort_values(WhereEq(df, "scenario", ssp_name))
    IN  IF a = <<>> \/ s = <<>> THEN <<>>
        ELSE <<ConnectorTrace(a, s, "heatwave_days", ssp_name, src_a,
                              color_map[ssp_name])>>

\* mutant: the base is not required to be selected
ConnectorSelectedBySspOnly(hw_sel, ssp, base) == ssp \in hw_sel.items

\* if ssp in hw_sel and base in hw_sel
ConnectorSelected(hw_sel, ssp, base) ==
    ssp \in hw_sel.items /\ base \in hw_sel.items

\* if hw_sel: for ssp in [...]: historical connector, then obs connector
HwConnectors(df, hw_sel) ==
    IF ~Truthy(hw_sel) THEN <<>>
    ELSE ConcatMap(LAMBDA ssp :
                      (IF ConnectorSelected(hw_sel, ssp, "historical")
                       THEN add_connector(df, "historical", ssp) ELSE <<>>)
                      \o
                      (IF ConnectorSelected(hw_sel, ssp, "obs")
                       THEN add_connector(df, "obs", ssp) ELSE <<>>),
                   Ssps)

\* the heatwave-days tab; hw.copy() raises when hw is None
HwFigure(hwT, hw_sel) ==
    IF hwT.isNone THEN Raised("AttributeError")
    ELSE Figure(HwSeriesTraces(hwT.rows, hw_sel) \o HwConnectors(hwT.rows, hw_sel),
                <<"Karstuma vilnu dienas">>, "Gads", "Dienas")

\* update_graph evaluated on given tables
Compose(hwiT, hwT, a_tab, a_view, a_sel, a_scen) ==
    IF a_tab = "hwi"
    THEN IF a_view = "scenario" THEN HwiScenarioFigure(hwiT, a_sel)
         ELSE HwiWarningFigure(hwiT, a_sel)
    ELSE HwFigure(hwT, a_scen)

\* update_graph(tab, hwi_view, hwi_sel, hw_sel) on the module globals
update_graph(a_tab, a_view, a_sel, a_scen) ==
    Compose(hwi, hw, a_tab, a_view, a_sel, a_scen)

\* the arguments of a call of update_graph
Args(a_tab, a_view, a_sel, a_scen) ==
    [tab |-> a_tab, hwi_view |-> a_view, hwi_sel |-> a_sel, hw_sel |-> a_scen]

NoFigure == [call |-> Args(None, None, None, NoneSel), out |-> [status |-> "none"]]

-----------------------------------------------------------------------------
(* Load *)

\* a CSV file: whether it can be read, and its rows in file order.  The "time"
\* column of the HWI file is held as the year that time.dt.year derives from it.
CsvFile(rows) == [readable |-> TRUE, rows |-> rows]
MissingFile == [readable |-> FALSE, rows |-> <<>>]

\* hwi = pd.read_csv(HWI_CSV, ...); hwi = hwi.dropna(subset=["hwi"])
LoadHwi(file) == dropna(file.rows, "hwi")

\* try: hw = pd.read_csv(HW_CSV); hw = hw.dropna(...)   except Exception: hw = None
LoadHw(file) ==
    IF file.readable
    THEN [isNone |-> FALSE, rows |-> dropna(file.rows, "heatwave_days")]
    ELSE [isNone |-> TRUE, rows |-> <<>>]

\* have_hw = True in the try block, False in the except block
LoadHaveHw(file) == file.readable

\* the state after the module body ran on the two files, page not yet served
Loaded(hwi_file, hw_file) ==
    /\ hwi = LoadHwi(hwi_file)
    /\ hw = LoadHw(hw_file)
    /\ have_hw = LoadHaveHw(hw_file)
    /\ loaded = [hwi |-> hwi, hw |-> hw]
    /\ tab = "hwi"
    /\ hwi_view = None
    /\ hwi_dd = [options |-> <<>>, value |-> None]
    /\ hw_scen = NoneSel
    /\ controls = "none"
    /\ fig = NoFigure
    /\ hidden = {}

-----------------------------------------------------------------------------
(* Input data the model ranges over *)

\* rows an HWI file is made of: two bases (one with two rows of its last
\* year), two SSPs (one with two years), a row of another level
HwiCsvRows ==
    { [year |-> 2020, source |-> "observations", warning_level |-> "yellow", hwi |-> 1],
      [year |-> 2021, source |-> "observations", warning_level |-> "yellow", hwi |-> 1],
      [year |-> 2021, source |-> "observations", warning_level |-> "yellow", hwi |-> 2],
      [year |-> 2020, source |-> "historical", warning_level |-> "yellow", hwi |-> 1],
      [year |-> 2021, source |-> "ssp126", warning_level |-> "yellow", hwi |-> 1],
      [year |-> 2020, source |-> "ssp126", warning_level |-> "yellow", hwi |-> 2],
      [year |-> 2021, source |-> "ssp245", warning_level |-> "yellow", hwi |-> 1],
      [year |-> 2021, source |-> "observations", warning_level |-> "red", hwi |-> 3] }

\* rows a heatwave-days file is made of
HwCsvRows ==
    { [year |-> 2020, scenario |-> "obs", heatwave_days |-> 1],
      [year |-> 2021, scenario |-> "obs", heatwave_days |-> 1],
      [year |-> 2021, scenario |-> "obs", heatwave_days |-> 2],
      [year |-> 2020, scenario |-> "historical", heatwave_days |-> 1],
      [year |-> 2021, scenario |-> "ssp126", heatwave_days |-> 1],
      [year |-> 2020, scenario |-> "ssp126", heatwave_days |-> 2],
      [year |-> 2021, scenario |-> "ssp245", heatwave_days |-> 2] }

\* all files of at most n rows
Files(rows, n) == UNION {[1..k -> rows] : k \in 0..n}

\* one fixed file of each kind
SampleHwiRows ==
    << [year |-> 2021, source |-> "ssp126", warning_level |-> "yellow", hwi |-> 3],
       [year |-> 2020, source |-> "observations", warning_level |-> "yellow", hwi |-> 1],
       [year |-> 2020, source |-> "historical", warning_level |-> "yellow", hwi |-> 2],
       [year |-> 2020, source |-> "observations", warning_level |-> "red", hwi |-> NaN] >>

SampleHwRows ==
    << [year |-> 2021, scenario |-> "ssp126", heatwave_days |-> 3],
       [year |-> 2020, scenario |-> "obs", heatwave_days |-> 1],
       [year |-> 2020, scenario |-> "historical", heatwave_days |-> 2],
       [year |-> 2019, scenario |-> "obs", heatwave_days |-> NaN] >>

\* argument values of update_graph
ViewInputs == {"scenario", "warning"}
CategoryInputs == {None, "yellow", "red", "observations", "other"}
ScenarioInputs ==
    {NoneSel} \cup {ListSel(S) : S \in SUBSET {"obs", "historical", "ssp126"}}
    \cup {ListSel({"ssp245"}), ListSel({"other"})}

\* the calls of update_graph: the controls of the other tab are not in the
\* layout, and their values arrive as None
Requests ==
    {Args("hwi", v, c, NoneSel) : v \in ViewInputs, c \in CategoryInputs}
    \cup {Args("hw", None, None, s) : s \in ScenarioInputs}

-----------------------------------------------------------------------------
(* The composer called directly: any sequence of update_graph calls *)

InitCompose ==
    /\ \/ \E f \in Files(HwiCsvRows, MaxRows) :
             Loaded(CsvFile(f), CsvFile(SampleHwRows))
       \/ \E f \in Files(HwCsvRows, MaxRows) :
             Loaded(CsvFile(SampleHwiRows), CsvFile(f))
       \/ Loaded(CsvFile(SampleHwiRows), MissingFile)
    /\ pending = {}

\* one call update_graph(tab, hwi_view, hwi_sel, hw_sel); the figure replaces
\* the one on the page
CallUpdateGraph ==
    /\ \E rq \in Requests :
          fig' = [call |-> rq,
                  out |-> update_graph(rq.tab, rq.hwi_view, rq.hwi_sel, rq.hw_sel)]
    /\ hidden' = {}
    /\ UNCHANGED <<hwi, hw, have_hw, loaded, tab, hwi_view, hwi_dd, hw_scen,
                   controls, pending>>

NextCompose == CallUpdateGraph

SpecCompose == InitCompose /\ [][NextCompose]_vars

-----------------------------------------------------------------------------
(* The page: controls, callbacks scheduled by the framework, the legend *)
(*                                                                         *)
(* A callback is scheduled when one of its Inputs changes and runs later,  *)
(* in any order with the user's next actions; it reads the values its      *)
(* Inputs have when it runs, and the value of a component that is not in   *)
(* the layout is None.                                                     *)

\* mutant: the heatwave-days tab stays enabled
TabNeverDisabled(t) == FALSE

\* dcc.Tab(..., value="hw", disabled=not have_hw); the HWI tab is never disabled
TabDisabled(t) == t = "hw" /\ ~have_hw

\* draw_controls(tab): the children of "controls-area" and their initial values
draw_controls(t) ==
    IF t = "hwi"
    THEN [kind |-> "hwi", hwi_view |-> "scenario",
          hwi_dd |-> [options |-> <<>>, value |-> None], hw_scen |-> NoneSel]
    ELSE [kind |-> "hw", hwi_view |-> None,
          hwi_dd |-> [options |-> <<>>, value |-> None],
          hw_scen |-> ListSel(Range(HwScenarios))]

\* hwi_dd(view): the options of the dropdown and its value
hwi_dd_callback(view) ==
    IF view = "scenario" THEN [options |-> levels, value |-> "yellow"]
    ELSE [options |-> scenarios, value |-> "observations"]

\* the page is served: the callbacks without prevent_initial_call are scheduled
InitPage ==
    /\ \E hw_file \in {CsvFile(SampleHwRows), MissingFile} :
          Loaded(CsvFile(SampleHwiRows), hw_file)
    /\ pending = {"draw_controls", "update_graph"}

\* the user clicks a tab that is not disabled
SelectTab(t) ==
    /\ t # tab
    /\ ~TabDisabled(t)
    /\ tab' = t
    /\ pending' = pending \cup {"draw_controls", "update_graph"}
    /\ UNCHANGED <<hwi, hw, have_hw, loaded, hwi_view, hwi_dd, hw_scen, controls,
                   fig, hidden>>

\* the callback draw_controls runs: the controls of the tab replace the old ones
\* (hwi_dd has prevent_initial_call and its output arrives with its input, so
\* it is not scheduled; a scheduled hwi_dd whose dropdown is gone is dropped)
RunDrawControls ==
    /\ "draw_controls" \in pending
    /\ LET c == draw_controls(tab)
       IN  /\ controls' = c.kind
           /\ hwi_view' = c.hwi_view
           /\ hwi_dd' = c.hwi_dd
           /\ hw_scen' = c.hw_scen
    /\ pending' = (pending \ {"draw_controls", "hwi_dd"}) \cup {"update_graph"}
    /\ UNCHANGED <<hwi, hw, have_hw, loaded, tab, fig, hidden>>

\* the user picks a view in the radio items
SelectView(v) ==
    /\ controls = "hwi"
    /\ v # hwi_view
    /\ hwi_view' = v
    /\ pending' = pending \cup {"hwi_dd", "update_graph"}
    /\ UNCHANGED <<hwi, hw, have_hw, loaded, tab, hwi_dd, hw_scen, controls,
                   fig, hidden>>

\* the callback hwi_dd runs
RunHwiDd ==
    /\ "hwi_dd" \in pending
    /\ hwi_dd' = hwi_dd_callback(hwi_view)
    /\ pending' = (pending \ {"hwi_dd"}) \cup {"update_graph"}
    /\ UNCHANGED <<hwi, hw, have_hw, loaded, tab, hwi_view, hw_scen, controls,
                   fig, hidden>>

\* the user picks an option of the dropdown, or clears it
SelectCategory(c) ==
    /\ controls = "hwi"
    /\ c \in Range(hwi_dd.options) \cup {None}
    /\ c # hwi_dd.value
    /\ hwi_dd' = [hwi_dd EXCEPT !.value = c]
    /\ pending' = pending \cup {"update_graph"}
    /\ UNCHANGED <<hwi, hw, have_hw, loaded, tab, hwi_view, hw_scen, controls,
                   fig, hidden>>

\* the user ticks or unticks one scenario of the checklist
ToggleScenario(s) ==
    /\ controls = "hw"
    /\ ~hw_scen.isNone
    /\ hw_scen' = ListSel(IF s \in hw_scen.items THEN hw_scen.items \ {s}
                          ELSE hw_scen.items \cup {s})
    /\ pending' = pending \cup {"update_graph"}
    /\ UNCHANGED <<hwi, hw, have_hw, loaded, tab, hwi_view, hwi_dd, controls,
                   fig, hidden>>

\* mutant: update_graph filters the global table instead of a copy
RunUpdateGraphInPlace ==
    /\ "update_graph" \in pending
    /\ fig' = [call |-> Args(tab, hwi_view, hwi_dd.value, hw_scen),
               out |-> update_graph(tab, hwi_view, hwi_dd.value, hw_scen)]
    /\ hwi' = IF tab # "hwi" THEN hwi
              ELSE IF hwi_view = "scenario" THEN FilterLevel(hwi, hwi_dd.value)
              ELSE FilterSource(hwi, hwi_dd.value)
    /\ hidden' = {}
    /\ pending' = pending \ {"update_graph"}
    /\ UNCHANGED <<hw, have_hw, loaded, tab, hwi_view, hwi_dd, hw_scen, controls>>

\* the callback update_graph runs on the current values of its four inputs
RunUpdateGraph ==
    /\ "update_graph" \in pending
    /\ fig' = [call |-> Args(tab, hwi_view, hwi_dd.value, hw_scen),
               out |-> update_graph(tab, hwi_view, hwi_dd.value, hw_scen)]
    /\ hidden' = {}
    /\ pending' = pending \ {"update_graph"}
    /\ UNCHANGED <<hwi, hw, have_hw, loaded, tab, hwi_view, hwi_dd, hw_scen,
                   controls>>

\* the traces a click on legend item i switches: the item alone under
\* legend_groupclick="toggleitem", else every trace of its legendgroup
Toggled(f, i) ==
    IF f.legend_groupclick = "toggleitem" THEN {i}
    ELSE {j \in 1..Len(f.traces) : f.traces[j].legendgroup = f.traces[i].legendgroup}

\* the user clicks the legend item of trace i (traces with showlegend=False
\* have no item)
LegendClick(i) ==
    /\ fig.out.status = "ok"
    /\ i \in 1..Len(fig.out.traces)
    /\ fig.out.traces[i].showlegend
    /\ hidden' = IF i \in hidden THEN hidden \ Toggled(fig.out, i)
                 ELSE hidden \cup Toggled(fig.out, i)
    /\ UNCHANGED <<hwi, hw, have_hw, loaded, tab, hwi_view, hwi_dd, hw_scen,
                   controls, fig, pending>>

\* most traces of a figure: five series and two connectors for each SSP
MaxTraces == Len(HwScenarios) + 2 * Len(Ssps)

Next ==
    \/ \E t \in {"hwi", "hw"} : SelectTab(t)
    \/ RunDrawControls
    \/ \E v \in ViewInputs : SelectView(v)
    \/ RunHwiDd
    \/ \E c \in Range(levels) \cup Range(scenarios) \cup {None} : SelectCategory(c)
    \/ \E s \in Range(HwScenarios) : ToggleScenario(s)
    \/ RunUpdateGraph
    \/ \E i \in 1..MaxTraces : LegendClick(i)

Spec == InitPage /\ [][Next]_vars

-----------------------------------------------------------------------------
(* Reading a figure *)

IsSeries(tr) == tr.mode = "lines+markers"
IsConnector(tr) == tr.mode = "lines"

Drawn == fig.out.status = "ok"
SeriesOf(f) == SelectSeq(f.traces, IsSeries)
ConnectorsOf(f) == SelectSeq(f.traces, IsConnector)
NamesOf(ts) == [i \in 1..Len(ts) |-> ts[i].name]

\* the connectors of f tagged for the pair (ssp, base)
ConnectorsFor(f, ssp, base) ==
    SelectSeq(f.traces, LAMBDA tr : IsConnector(tr)
                                    /\ tr.legendgroup = ConnectorGroup(ssp, base))

\* the series of f named n (at most one is ever drawn)
SeriesNamed(f, n) == SelectSeq(f.traces, LAMBDA tr : IsSeries(tr) /\ tr.name = n)

HasTitleAndAxes(f) ==
    f.title # <<>> /\ f.xaxis_title = "Gads" /\ f.yaxis_title \in {"HWI", "Dienas"}

NonDecreasing(xs) == \A i \in 1..Len(xs) : \A j \in i..Len(xs) : xs[i] <= xs[j]

HwCall == fig.call.tab = "hw" /\ ~hw.isNone
HwiScenarioCall == fig.call.tab = "hwi" /\ fig.call.hwi_view = "scenario"
HwiWarningCall == fig.call.tab = "hwi" /\ fig.call.hwi_view = "warning"

\* rows of the HWI table of source src at level lvl; rows of the heatwave-days
\* table of scenario scen
HwiRowsOf(src, lvl) ==
    {r \in Range(hwi) : r.source = src /\ r.warning_level = lvl}
HwRowsOf(scen) == {r \in Range(hw.rows) : r.scenario = scen}

YearsOf(rows) == {r.year : r \in rows}
Greatest(S) == CHOOSE y \in S : \A z \in S : z <= y
Least(S) == CHOOSE y \in S : \A z \in S : y <= z

-----------------------------------------------------------------------------
(* C1 *)

\* C1 (as stated): on the heatwave-days tab, for every selected list S, the
\* data series are exactly the scenarios of S that have a row, in the order
\* obs, historical, ssp126, ssp245, ssp370; an empty S gives no series and no
\* connector.
C1_SeriesAreTheSelectedScenarios ==
    (HwCall /\ ~fig.call.hw_sel.isNone) =>
        /\ Drawn
        /\ NamesOf(SeriesOf(fig.out))
             = SelectSeq(HwScenarios,
                         LAMBDA sc : sc \in fig.call.hw_sel.items
                                     /\ HwRowsOf(sc) # {})
        /\ (fig.call.hw_sel.items = {} => fig.out.traces = <<>>)

-----------------------------------------------------------------------------
(* C2 *)

\* C2 (as stated): after any legend clicks, a connector between base B and SSP
\* S is visible only if the series B and the series S are both visible, and
\* the connector carries the legendgroup of its endpoint series.
C2_ConnectorHidesWithEitherEndpoint ==
    Drawn =>
        \A j \in 1..Len(fig.out.traces) : \A i \in 1..Len(fig.out.traces) :
            LET c == fig.out.traces[j]
                e == fig.out.traces[i]
            IN  (IsConnector(c) /\ IsSeries(e)
                 /\ e.name \in {c.legendgroup[1], c.legendgroup[3]})
                => (i \in hidden => j \in hidden)

-----------------------------------------------------------------------------
(* C3 *)

\* the category of the call matches no row of the HWI table
NoRowMatches ==
    \/ HwiScenarioCall
       /\ \A r \in Range(hwi) : r.warning_level # fig.call.hwi_sel
    \/ HwiWarningCall
       /\ \A r \in Range(hwi) : r.source # fig.call.hwi_sel

\* C3 (as stated): on the HWI tab, in both views, a category that matches no
\* row (unknown, of the other view, or unset) gives a figure without traces
\* that still has its title and axis labels; the call never raises.
C3_NoMatchGivesEmptyFigure ==
    NoRowMatches =>
        /\ Drawn
        /\ fig.out.traces = <<>>
        /\ HasTitleAndAxes(fig.out)

-----------------------------------------------------------------------------
(* C4 *)

\* the connector c runs from a point of the rows `from` at their greatest year
\* to a point of the rows `to` at their least year; col is the value column
RunsFromLastToFirst(c, from, to, col) ==
    /\ c.x = <<Greatest(YearsOf(from)), Least(YearsOf(to))>>
    /\ \E r \in from : r.year = c.x[1] /\ r[col] = c.y[1]
    /\ \E r \in to : r.year = c.x[2] /\ r[col] = c.y[2]

\* C4: in HWI scenario view at level L, for every SSP s and base b there is
\* exactly one connector for (b, s) if b and s both have a row at level L, and
\* none otherwise; it runs from (greatest year of b, an hwi of b at that year)
\* to (least year of s, an hwi of s at that year).  So there are at most two
\* connectors for each SSP series drawn, and none without a base or an SSP.
C4_HwiConnectors ==
    (HwiScenarioCall /\ fig.call.hwi_sel # None) =>
        /\ Drawn
        /\ \A s \in Range(Ssps) : \A b \in Range(HwiBases) :
              LET L == fig.call.hwi_sel
                  cs == ConnectorsFor(fig.out, s, b)
              IN  IF HwiRowsOf(b, L) # {} /\ HwiRowsOf(s, L) # {}
                  THEN /\ Len(cs) = 1
                       /\ RunsFromLastToFirst(cs[1], HwiRowsOf(b, L),
                                              HwiRowsOf(s, L), "hwi")
                  ELSE cs = <<>>
        /\ \A i \in 1..Len(fig.out.traces) :
              IsConnector(fig.out.traces[i]) =>
                  \E s \in Range(Ssps) : \E b \in Range(HwiBases) :
                      fig.out.traces[i].legendgroup = ConnectorGroup(s, b)
        /\ Len(ConnectorsOf(fig.out))
             <= 2 * Cardinality({s \in Range(Ssps) :
                                    SeriesNamed(fig.out, s) # <<>>})

\* a scenario-view figure with both connectors of one SSP
C4_Witness ==
    /\ HwiScenarioCall /\ Drawn
    /\ \E s \in Range(Ssps) :
          /\ ConnectorsFor(fig.out, s, "observations") # <<>>
          /\ ConnectorsFor(fig.out, s, "historical") # <<>>

-----------------------------------------------------------------------------
(* C5 *)

\* C5: on the heatwave-days tab, for every selection S, SSP s and base b in
\* {historical, obs}, a connector for (b, s) is drawn iff s and b are in S and
\* both have a row; it runs from a greatest-year point of b to a least-year
\* point of s.  S = [ssp245] gives at most the one series ssp245 and no
\* connector.
C5_HwConnectors ==
    HwCall =>
        /\ Drawn
        /\ \A s \in Range(Ssps) : \A b \in {"historical", "obs"} :
              LET S == fig.call.hw_sel.items
                  cs == ConnectorsFor(fig.out, s, b)
              IN  IF s \in S /\ b \in S /\ HwRowsOf(b) # {} /\ HwRowsOf(s) # {}
                  THEN /\ Len(cs) = 1
                       /\ RunsFromLastToFirst(cs[1], HwRowsOf(b), HwRowsOf(s),
                                              "heatwave_days")
                  ELSE cs = <<>>
        /\ \A i \in 1..Len(fig.out.traces) :
              IsConnector(fig.out.traces[i]) =>
                  \E s \in Range(Ssps) : \E b \in {"historical", "obs"} :
                      fig.out.traces[i].legendgroup = ConnectorGroup(s, b)
        /\ (fig.call.hw_sel = ListSel({"ssp245"}) =>
               /\ NamesOf(fig.out.traces) \in {<<>>, <<"ssp245">>}
               /\ (HwRowsOf("ssp245") # {} => NamesOf(fig.out.traces) = <<"ssp245">>))

\* a base with rows is left out of the selection, so its connector is not
\* drawn, while the connector of the selected base is
C5_Witness ==
    /\ HwCall /\ Drawn
    /\ fig.call.hw_sel = ListSel({"historical", "ssp126"})
    /\ HwRowsOf("obs") # {}
    /\ ConnectorsFor(fig.out, "ssp126", "historical") # <<>>

-----------------------------------------------------------------------------
(* C7 *)

\* every point of trace tr is the (year, hwi) of a row satisfying P
PointsFrom(tr, P(_)) ==
    \A i \in 1..Len(tr.x) :
        \E r \in Range(hwi) : r.year = tr.x[i] /\ r.hwi = tr.y[i] /\ P(r)

\* C7: on the HWI tab every plotted point comes from a row that passes the
\* filter: in scenario view at level L every point of every series and every
\* connector end has warning_level = L (and, for a series, the source the
\* series is named after); in warning view of source S every point has
\* source = S (and the level the series is named after).
C7_PointsMatchFilter ==
    (Drawn /\ fig.call.tab = "hwi") =>
        \A i \in 1..Len(fig.out.traces) :
            LET tr == fig.out.traces[i]
            IN  IF fig.call.hwi_view = "scenario"
                THEN PointsFrom(tr, LAMBDA r :
                        /\ r.warning_level = fig.call.hwi_sel
                        /\ IsSeries(tr) => r.source = tr.name)
                ELSE PointsFrom(tr, LAMBDA r :
                        /\ r.source = fig.call.hwi_sel
                        /\ r.warning_level = tr.name)

\* a series is drawn from a table that also holds a row of its source at
\* another level
C7_Witness ==
    /\ HwiScenarioCall /\ Drawn
    /\ \E i \in 1..Len(fig.out.traces) :
          \E r \in Range(hwi) :
              /\ r.source = fig.out.traces[i].name
              /\ r.warning_level # fig.call.hwi_sel

-----------------------------------------------------------------------------
(* C8 *)

\* C8: in HWI warning view of source S the traces are exactly one series for
\* each level that has a row of S, in the order yellow, orange, red; there is
\* no connector, and a level without rows is left out without an error.
C8_WarningSeries ==
    HwiWarningCall =>
        /\ Drawn
        /\ NamesOf(fig.out.traces)
             = SelectSeq(levels, LAMBDA l : HwiRowsOf(fig.call.hwi_sel, l) # {})
        /\ \A i \in 1..Len(fig.out.traces) : IsSeries(fig.out.traces[i])

\* yellow and red are drawn, orange has no row and is left out
C8_Witness ==
    HwiWarningCall /\ Drawn /\ NamesOf(fig.out.traces) = <<"yellow", "red">>

-----------------------------------------------------------------------------
(* C6 *)

\* C6: when the heatwave-days file cannot be loaded, the load ends with
\* hw = None and have_hw = False, the heatwave-days tab is disabled, the
\* current tab stays hwi whatever the user does, and update_graph is never
\* called for the heatwave-days tab.
C6_AbsentTableTabUnreachable ==
    ~have_hw =>
        /\ hw.isNone
        /\ TabDisabled("hw")
        /\ tab = "hwi"
        /\ fig.call.tab # "hw"

\* the file was missing, the page came up and update_graph ran for the HWI tab
\* after the user changed the view
C6_Witness ==
    /\ ~have_hw /\ hw.isNone
    /\ fig.call.tab = "hwi" /\ fig.call.hwi_view = "warning" /\ Drawn

-----------------------------------------------------------------------------
(* C9 *)

\* the first y of series tr at year yr
FirstYAt(tr, yr) ==
    tr.y[CHOOSE i \in 1..Len(tr.x) :
            tr.x[i] = yr /\ \A j \in 1..(i - 1) : tr.x[j] # yr]

\* the series that connector c joins: <<base series, SSP series>>
EndsOf(c) ==
    <<SeriesNamed(fig.out, c.legendgroup[3])[1],
      SeriesNamed(fig.out, c.legendgroup[1])[1]>>

AllSeriesSorted ==
    \A i \in 1..Len(fig.out.traces) :
        IsSeries(fig.out.traces[i]) => NonDecreasing(fig.out.traces[i].x)

\* table t with rows k and k+1 exchanged
Swap(t, k) ==
    [i \in 1..Len(t) |-> IF i = k THEN t[k + 1] ELSE IF i = k + 1 THEN t[k] ELSE t[i]]

\* the connectors of the last call are the same after any exchange of two
\* neighbouring rows of either table (the tables range over all row orders, so
\* this is the same as after any permutation)
RowOrderIrrelevant ==
    /\ \A k \in 1..(Len(hwi) - 1) :
          ConnectorsOf(Compose(Swap(hwi, k), hw, fig.call.tab, fig.call.hwi_view,
                               fig.call.hwi_sel, fig.call.hw_sel))
            = ConnectorsOf(fig.out)
    /\ \A k \in 1..(Len(hw.rows) - 1) :
          ConnectorsOf(Compose(hwi, [hw EXCEPT !.rows = Swap(hw.rows, k)],
                               fig.call.tab, fig.call.hwi_view, fig.call.hwi_sel,
                               fig.call.hw_sel))
            = ConnectorsOf(fig.out)

\* no two rows of a table belong to the same series and year
NoRepeatedYear ==
    /\ \A i, j \in 1..Len(hwi) :
          (i # j /\ hwi[i].source = hwi[j].source
           /\ hwi[i].warning_level = hwi[j].warning_level)
          => hwi[i].year # hwi[j].year
    /\ \A i, j \in 1..Len(hw.rows) :
          (i # j /\ hw.rows[i].scenario = hw.rows[j].scenario)
          => hw.rows[i].year # hw.rows[j].year

\* C9 (as stated): for every table in any row order, every series is in
\* non-decreasing year, each connector starts at the last point of its base
\* series and ends at the first point of its SSP series, and the connectors do
\* not depend on the row order.
C9_EndpointsAreSeriesEnds ==
    Drawn =>
        /\ AllSeriesSorted
        /\ \A i \in 1..Len(fig.out.traces) :
              LET c == fig.out.traces[i]
              IN  IsConnector(c) =>
                     LET b == EndsOf(c)[1]
                         s == EndsOf(c)[2]
                     IN  /\ c.x[1] = b.x[Len(b.x)] /\ c.y[1] = b.y[Len(b.y)]
                         /\ c.x[2] = s.x[1] /\ c.y[2] = s.y[1]
        /\ RowOrderIrrelevant

\* C9 (amended): every series is in non-decreasing year; each connector ends
\* at the first point of its SSP series and starts at the last year of its base
\* series with the value of the first point of that year; when no series has
\* two rows of one year the connectors do not depend on the row order.
C9_SortedSeriesAndEndpoints ==
    Drawn =>
        /\ AllSeriesSorted
        /\ \A i \in 1..Len(fig.out.traces) :
              LET c == fig.out.traces[i]
              IN  IsConnector(c) =>
                     LET b == EndsOf(c)[1]
                         s == EndsOf(c)[2]
                     IN  /\ c.x[1] = b.x[Len(b.x)]
                         /\ c.y[1] = FirstYAt(b, c.x[1])
                         /\ c.x[2] = s.x[1] /\ c.y[2] = s.y[1]
        /\ NoRepeatedYear => RowOrderIrrelevant

\* a connector leaves a base series whose file rows are out of year order
C9_Witness ==
    /\ Drawn /\ NoRepeatedYear /\ fig.call.tab = "hwi"
    /\ \E i \in 1..Len(fig.out.traces) :
          /\ IsConnector(fig.out.traces[i])
          /\ Len(EndsOf(fig.out.traces[i])[1].x) = 2
    /\ \E i \in 1..Len(hwi) : \E j \in (i + 1)..Len(hwi) :
          hwi[i].source = hwi[j].source /\ hwi[i].year > hwi[j].year

-----------------------------------------------------------------------------
(* C10 *)

\* C10: no callback writes the two tables: in every state reached by any
\* interleaving of draw_controls, hwi_dd and update_graph the tables are the
\* loaded ones, and the figure is the one the same call gives on the loaded
\* tables.
C10_TablesNeverWritten ==
    /\ hwi = loaded.hwi
    /\ hw = loaded.hw
    /\ have_hw = ~loaded.hw.isNone
    /\ fig.out.status # "none" =>
          fig.out = Compose(loaded.hwi, loaded.hw, fig.call.tab, fig.call.hwi_view,
                            fig.call.hwi_sel, fig.call.hw_sel)

\* all three callbacks have run and update_graph has filtered rows away
C10_Witness ==
    /\ controls = "hwi" /\ hwi_dd.options = scenarios
    /\ Drawn /\ fig.call.hwi_sel = "historical"
    /\ Len(fig.out.traces) = 1
    /\ Len(hwi) > 1

====
